---- MODULE Spec2Model ----
(***************************************************************************)
(* Model of src/app.py (resume-screener, narrative variant): a Streamlit   *)
(* script that, on "Screen Candidates", validates its inputs and then      *)
(* walks the uploaded PDFs one by one: extract text, ask the hosted model, *)
(* render the answer, advance the progress bar, sleep.                     *)
(*                                                                         *)
(* Strings are sequences of chunks.  Exception texts are sequences of      *)
(* single characters, so that "404" in error_msg is a real substring     *)
(* test; the string literals of the source are single chunks.              *)
(***************************************************************************)
EXTENDS Integers, Sequences, FiniteSets, TLC

\* ---- bounds of the model ------------------------------------------------
MaxFiles == 2
MaxPages == 2
MaxRuns == 2

\* ---- program constants --------------------------------------------------
SleepSeconds == 4

ModelName == "gemini-2.5-flash"

Unbound == "<unbound>"

None == <<"<None>">>

S404 == <<"4", "0", "4">>

ErrPrefix == "Error processing candidate: "

ModelErrorHead == "Model Error: The AI model "

ModelErrorTail == " was not found. Please try upgrading your library"

ReadErrorText == <<"Could not read PDF content.">>

CompleteText == <<"Batch Screening Complete!">>

WarnKey == <<"Please enter your API Key in the sidebar.">>

WarnFiles == <<"Please upload at least one resume.">>

WarnJD == <<"Please enter a Job Description for context.">>

UnboundLocalError == <<"UnboundLocalError: model_name">>

ScoreHdr == "Match Score: "

\* ---- string helpers -------------------------------------------------------
\* Python's sub in s on strings: sub occurs as a contiguous run of s.
Contains(s, sub) ==
    \E k \in 0..(Len(s) - Len(sub)) :
        \A j \in 1..Len(sub) : s[k + j] = sub[j]

\* Python truthiness of the result of get_pdf_text: None and the empty string are falsy.
Truthy(text) == text # None /\ text # <<>>

\* ---- inputs the environment can supply --------------------------------------
ApiKeys == {<<>>, <<"k">>}

JobDescriptions == {<<>>, <<"jd">>}

FileName(k) == <<"cv", ToString(k)>>

FileLists == {[k \in 1..n |-> FileName(k)] : n \in 0..MaxFiles}

\* What one page's extract_text() does: return text (possibly empty) or raise.
PageOutcomes ==
    { [raises |-> FALSE, text |-> <<>>],
      [raises |-> FALSE, text |-> <<"a">>],
      [raises |-> TRUE,  text |-> <<>>] }

PageLists == UNION {[1..n -> PageOutcomes] : n \in 0..MaxPages}

\* What an uploaded blob turns out to be when PdfReader opens it.
PdfKinds == {[opens |-> o, pages |-> p] : o \in BOOLEAN, p \in PageLists}

\* Texts of the exceptions the client library can raise (str(e)).
ExcMsgs == { <<"x">>, S404, <<"x", "4", "0", "4", "x">>, <<"4", "0">> }

\* Texts the remote model can answer with (response.text).
Responses ==
    { <<"Summary", ScoreHdr, "7", "/10">>,
      <<"Summary", ScoreHdr, "11", "/10">>,
      <<"Summary", ScoreHdr, "-3", "/10">>,
      <<"Summary", ScoreHdr, "N/A", "/10">>,
      <<"Summary">> }

\* ---- get_pdf_text -------------------------------------------------------------
RECURSIVE ExtractPages(_, _)
\* the for-loop of get_pdf_text: text += page.extract_text(), stopping at
\* the first page that raises
ExtractPages(pages, text) ==
    IF pages = <<>> THEN [raised |-> FALSE, text |-> text]
    ELSE IF Head(pages).raises THEN [raised |-> TRUE, text |-> text]
    ELSE ExtractPages(Tail(pages), text \o Head(pages).text)

\* variant with a seeded fault: the except branch hands back the text gathered so far
get_pdf_text_partial(pdf) ==
    IF ~pdf.opens THEN [raised |-> TRUE, value |-> None]
    ELSE LET r == ExtractPages(pdf.pages, <<>>)
         IN  [raised |-> r.raised, value |-> r.text]

get_pdf_text(pdf) ==
    IF ~pdf.opens THEN [raised |-> TRUE, value |-> None]
    ELSE LET r == ExtractPages(pdf.pages, <<>>)
         IN  IF r.raised THEN [raised |-> TRUE, value |-> None]
             ELSE [raised |-> FALSE, value |-> r.text]

\* ---- analyze_candidate ----------------------------------------------------------
\* variant with a seeded fault: the handler returns a generic text without str(e)
ExceptHandler_generic(error_msg, model_name) ==
    IF Contains(error_msg, S404)
    THEN IF model_name = Unbound
         THEN [raised |-> TRUE, value |-> UnboundLocalError]
         ELSE [raised |-> FALSE,
               value |-> <<ModelErrorHead, model_name, ModelErrorTail>>]
    ELSE [raised |-> FALSE, value |-> <<ErrPrefix>>]

\* the except branch; model_name is the local of analyze_candidate, still
\* unbound when genai.configure is what raised
ExceptHandler(error_msg, model_name) ==
    IF Contains(error_msg, S404)
    THEN IF model_name = Unbound
         THEN [raised |-> TRUE, value |-> UnboundLocalError]
         ELSE [raised |-> FALSE,
               value |-> <<ModelErrorHead, model_name, ModelErrorTail>>]
    ELSE [raised |-> FALSE, value |-> <<ErrPrefix>> \o error_msg]

\* variant with a seeded fault: the answer is cut down to its first chunk
ResponseText_cut(response) == SubSeq(response, 1, 1)

\* return response.text
ResponseText(response) == response

\* ---- input validation -------------------------------------------------------------
\* variant with a seeded fault: the job description is not checked
Validate_nojd(k, f, jd) ==
    IF k = <<>> THEN WarnKey
    ELSE IF f = <<>> THEN WarnFiles
    ELSE <<>>

\* the if/elif chain of the handler; <<>> means "go on to the loop"
Validate(k, f, jd) ==
    IF k = <<>> THEN WarnKey
    ELSE IF f = <<>> THEN WarnFiles
    ELSE IF jd = <<>> THEN WarnJD
    ELSE <<>>

\* ---- page elements and trace events --------------------------------------------------
Elem(kind, file, text, r) == [kind |-> kind, file |-> file, text |-> text, run |-> r]

\* data: the text of the event (of an extraction, only whether there is any);
\* exc: the extraction raised (PdfReader or a page); secs: length of a sleep
Event(ev, file, data) ==
    [ev |-> ev, file |-> file, data |-> data, exc |-> FALSE, secs |-> 0]

\* variant with a seeded fault: results of the previous run are kept on the page
FreshPage_keep(prev) == prev

\* a rerun of the script rebuilds the page from the top: nothing of the
\* previous run is stored (no session state), so nothing is drawn again
FreshPage(prev) == <<>>

Panels(d) == Cardinality({p \in DOMAIN d : d[p].kind = "expander"})

NoBar == [shown |-> FALSE, num |-> 0, den |-> 1]

VARIABLES
    api_key,         \* sidebar text input
    job_description, \* text area
    uploaded_files,  \* file uploader: sequence of file names
    pc,              \* where the script run is
    run,             \* number of script runs started by a button so far
    clicked,         \* the button that started the current run
    i,               \* loop index (1-based)
    resume_text,     \* local of the loop body
    model_name,      \* local of analyze_candidate
    outstanding,     \* model requests sent and not yet answered
    display,         \* elements drawn on the page, in order
    progress_bar,    \* the st.progress element
    log,             \* trace of what the current run did
    prev_panels      \* candidate panels on the page when the button was pressed

vars == <<api_key, job_description, uploaded_files, pc, run, clicked, i,
          resume_text, model_name, outstanding, display, progress_bar, log,
          prev_panels>>

Waiting == {"idle", "warned", "tested", "done", "crashed"}

Init ==
    /\ api_key = <<>>
    /\ job_description = <<>>
    /\ uploaded_files = <<>>
    /\ pc = "idle"
    /\ run = 0
    /\ clicked = "none"
    /\ i = 0
    /\ resume_text = None
    /\ model_name = Unbound
    /\ outstanding = 0
    /\ display = <<>>
    /\ progress_bar = NoBar
    /\ log = <<>>
    /\ prev_panels = 0


\* ---- the two buttons ------------------------------------------------------------
\* "Screen Candidates": the script reruns from the top with the widget values
\* of the moment, validates them and either warns or draws the header and
\* the progress bar and enters the loop
ScreenCandidates ==
    /\ pc \in Waiting
    /\ run < MaxRuns
    /\ \E k \in ApiKeys, f \in FileLists, jd \in JobDescriptions :
         LET w == Validate(k, f, jd)
             page == FreshPage(display)
         IN  /\ api_key' = k
             /\ uploaded_files' = f
             /\ job_description' = jd
             /\ IF w # <<>>
                THEN /\ display' = Append(page, Elem("warning", 0, w, run + 1))
                     /\ progress_bar' = NoBar
                     /\ i' = 0
                     /\ pc' = "warned"
                ELSE /\ display' = Append(page,
                            Elem("subheader", 0,
                                 <<"Processing ", ToString(Len(f)), " Candidates...">>,
                                 run + 1))
                     /\ progress_bar' = [shown |-> TRUE, num |-> 0, den |-> Len(f)]
                     /\ i' = 1
                     /\ pc' = "extract"
    /\ run' = run + 1
    /\ clicked' = "screen"
    /\ resume_text' = None
    /\ model_name' = Unbound
    /\ log' = <<>>
    /\ prev_panels' = Panels(display)
    /\ UNCHANGED outstanding

\* "Test API Key & List Models" in the sidebar
TestApiKey ==
    /\ pc \in Waiting
    /\ run < MaxRuns
    /\ \E k \in ApiKeys :
         /\ api_key' = k
         /\ \E outcome \in {<<>>} \cup ExcMsgs :
              display' = Append(FreshPage(display),
                  IF k = <<>> THEN Elem("error", 0, <<"Enter a key first.">>, run + 1)
                  ELSE IF outcome = <<>>
                       THEN Elem("success", 0, <<"API Key is working!">>, run + 1)
                       ELSE Elem("error", 0, <<"Key failed: ">> \o outcome, run + 1))
    /\ run' = run + 1
    /\ clicked' = "test"
    /\ pc' = "tested"
    /\ i' = 0
    /\ resume_text' = None
    /\ model_name' = Unbound
    /\ progress_bar' = NoBar
    /\ log' = <<>>
    /\ prev_panels' = Panels(display)
    /\ UNCHANGED <<uploaded_files, job_description, outstanding>>

\* ---- the loop body ------------------------------------------------------------------
\* open the expander, extract the text, and show the read error when the
\* text is None or empty
ExtractText ==
    /\ pc = "extract"
    /\ \E pdf \in PdfKinds :
         LET r == get_pdf_text(pdf)
             d1 == Append(display, Elem("expander", i, uploaded_files[i], run))
             d2 == IF r.raised
                   THEN Append(d1, Elem("error", i,
                            <<"Error reading PDF ">> \o uploaded_files[i] \o <<": e">>, run))
                   ELSE d1
         IN  /\ resume_text' = r.value
             /\ log' = Append(log,
                    [Event("extract", i, IF Truthy(r.value) THEN <<"text">> ELSE <<>>)
                        EXCEPT !.exc = r.raised])
             /\ IF Truthy(r.value)
                THEN /\ display' = d2
                     /\ pc' = "analyze"
                ELSE /\ display' = Append(d2, Elem("error", i, ReadErrorText, run))
                     /\ pc' = "progress"
    /\ UNCHANGED <<api_key, job_description, uploaded_files, run, clicked, i,
                   model_name, outstanding, progress_bar, prev_panels>>

\* variant with a seeded fault: a failed generate_content sends the file round again
Handled_retry(stage, msg, h) ==
    IF stage = "raise_generate"
    THEN /\ log' = Append(log, Event(stage, i, msg))
         /\ pc' = "analyze"
         /\ UNCHANGED display
    ELSE LET l1 == Append(log, Event(stage, i, msg))
         IN  IF h.raised
             THEN /\ display' = Append(display, Elem("exception", i, h.value, run))
                  /\ log' = Append(l1, Event("crash", i, h.value))
                  /\ pc' = "crashed"
             ELSE /\ display' = Append(display, Elem("markdown", i, h.value, run))
                  /\ log' = Append(l1, Event("render", i, h.value))
                  /\ pc' = "progress"

\* what happens once the except branch of analyze_candidate has run: its
\* return value is rendered with st.markdown, or the exception it raised
\* itself leaves analyze_candidate and the loop, and the run stops
Handled(stage, msg, h) ==
    LET l1 == Append(log, Event(stage, i, msg))
    IN  IF h.raised
        THEN /\ display' = Append(display, Elem("exception", i, h.value, run))
             /\ log' = Append(l1, Event("crash", i, h.value))
             /\ pc' = "crashed"
        ELSE /\ display' = Append(display, Elem("markdown", i, h.value, run))
             /\ log' = Append(l1, Event("render", i, h.value))
             /\ pc' = "progress"

\* analyze_candidate up to the call of generate_content: configure the
\* client, build the model, send the request; after it is the control
\* state once the request is on its way
AnalyzeCallTo(after) ==
    /\ pc = "analyze"
    /\ \/ \E msg \in ExcMsgs :
            /\ Handled("raise_configure", msg, ExceptHandler(msg, Unbound))
            /\ UNCHANGED <<model_name, outstanding>>
       \/ \E msg \in ExcMsgs :
            /\ model_name' = ModelName
            /\ Handled("raise_model", msg, ExceptHandler(msg, ModelName))
            /\ UNCHANGED outstanding
       \/ /\ model_name' = ModelName
          /\ outstanding' = outstanding + 1
          /\ log' = Append(log, Event("request", i, <<>>))
          /\ pc' = after
          /\ UNCHANGED display
    /\ UNCHANGED <<api_key, job_description, uploaded_files, run, clicked, i,
                   resume_text, progress_bar, prev_panels>>

\* variant with a seeded fault: the request is sent without waiting for its answer
AnalyzeCall_nowait == AnalyzeCallTo("progress")

AnalyzeCall == AnalyzeCallTo("generate")

\* generate_content returns or raises; the result is rendered
GenerateReturn ==
    /\ pc = "generate"
    /\ outstanding' = outstanding - 1
    /\ \/ \E response \in Responses :
            LET analysis == ResponseText(response)
            IN  /\ display' = Append(display, Elem("markdown", i, analysis, run))
                /\ log' = Append(Append(log, Event("response", i, response)),
                                 Event("render", i, analysis))
                /\ pc' = "progress"
       \/ \E msg \in ExcMsgs :
            Handled("raise_generate", msg, ExceptHandler(msg, model_name))
    /\ UNCHANGED <<api_key, job_description, uploaded_files, run, clicked, i,
                   resume_text, model_name, progress_bar, prev_panels>>

\* progress_bar.progress((i + 1) / len(uploaded_files)), i counted from 1 here
UpdateProgress ==
    /\ pc = "progress"
    /\ progress_bar' = [shown |-> TRUE, num |-> i, den |-> Len(uploaded_files)]
    /\ log' = Append(log, Event("progress", i, <<>>))
    /\ pc' = "sleep"
    /\ UNCHANGED <<api_key, job_description, uploaded_files, run, clicked, i,
                   resume_text, model_name, outstanding, display, prev_panels>>

\* time.sleep(4), then the next file or the end of the loop
Sleep ==
    /\ pc = "sleep"
    /\ log' = Append(log, [Event("sleep", i, <<>>) EXCEPT !.secs = SleepSeconds])
    /\ IF i < Len(uploaded_files)
       THEN /\ i' = i + 1
            /\ pc' = "extract"
       ELSE /\ i' = i
            /\ pc' = "complete"
    /\ UNCHANGED <<api_key, job_description, uploaded_files, run, clicked,
                   resume_text, model_name, outstanding, display, progress_bar,
                   prev_panels>>

\* st.success after the loop
Complete ==
    /\ pc = "complete"
    /\ display' = Append(display, Elem("success", 0, CompleteText, run))
    /\ log' = Append(log, Event("complete", 0, <<>>))
    /\ pc' = "done"
    /\ UNCHANGED <<api_key, job_description, uploaded_files, run, clicked, i,
                   resume_text, model_name, outstanding, progress_bar, prev_panels>>

Next ==
    \/ ScreenCandidates
    \/ TestApiKey
    \/ ExtractText
    \/ AnalyzeCall
    \/ GenerateReturn
    \/ UpdateProgress
    \/ Sleep
    \/ Complete

Spec == Init /\ [][Next]_vars

TypeOK ==
    /\ pc \in Waiting \cup {"extract", "analyze", "generate", "progress", "sleep", "complete"}
    /\ run \in 0..MaxRuns
    /\ i \in 0..MaxFiles
    /\ outstanding \in 0..1


\* ---- vocabulary of the properties ---------------------------------------------------
N == Len(uploaded_files)

Count(ev, f) == Cardinality({p \in DOMAIN log : log[p].ev = ev /\ log[p].file = f})

Raises == {"raise_configure", "raise_model", "raise_generate"}

\* the run was started by "Screen Candidates" and passed input validation
RunStarted ==
    /\ clicked = "screen"
    /\ api_key # <<>>
    /\ uploaded_files # <<>>
    /\ job_description # <<>>

\* the script run has stopped: after the last line, or on an uncaught exception
Terminated == pc \in {"done", "crashed"}

\* the page shows, inside the panel of file f, an element of this kind and text
Shows(kind, f, text) ==
    \E p \in DOMAIN display :
        display[p].kind = kind /\ display[p].file = f /\ display[p].text = text

\* file f's extraction failed: it raised, or it produced no text
ExtractFailed(f) ==
    \E p \in DOMAIN log :
        /\ log[p].ev = "extract" /\ log[p].file = f
        /\ (log[p].exc \/ log[p].data = <<>>)

ExtractOk(f) ==
    \E p \in DOMAIN log :
        /\ log[p].ev = "extract" /\ log[p].file = f
        /\ ~log[p].exc /\ log[p].data # <<>>

\* the model call of file f failed at some stage
CallFailed(f) == \E p \in DOMAIN log : log[p].ev \in Raises /\ log[p].file = f

\* the text carries a match score within 0..10
InRange(text) ==
    \E k \in 1..(Len(text) - 1) :
        text[k] = ScoreHdr /\ text[k + 1] \in {ToString(n) : n \in 0..10}

\* ---- C1 ---------------------------------------------------------------------------------
\* C1: once a run has passed input validation, no extraction failure and no
\* model-call failure stops the batch: when the run has stopped, every file
\* of the batch has been processed and the completion message is shown.
C1_FailuresNonFatal ==
    (RunStarted /\ Terminated) =>
        /\ pc = "done"
        /\ \A f \in 1..N : Count("extract", f) = 1
        /\ Shows("success", 0, CompleteText)

\* ---- C2 ---------------------------------------------------------------------------------
\* C2: "Screen Candidates" with an empty API key, file list or job description
\* shows a warning and processes nothing: no PDF read, no model request, no
\* progress bar, no completion message.
C2_MissingInputsBlock ==
    (clicked = "screen" /\ (api_key = <<>> \/ uploaded_files = <<>> \/ job_description = <<>>)) =>
        /\ pc = "warned"
        /\ Len(display) = 1
        /\ display[1].kind = "warning"
        /\ display[1].text \in {WarnKey, WarnFiles, WarnJD}
        /\ log = <<>>
        /\ outstanding = 0
        /\ ~progress_bar.shown

C2_Witness ==
    /\ clicked = "screen"
    /\ pc = "warned"
    /\ api_key # <<>>
    /\ uploaded_files # <<>>
    /\ job_description = <<>>
    /\ display[1].text = WarnJD

\* ---- C3 ---------------------------------------------------------------------------------
\* C3 (as stated): whenever a model-call failure is rendered, the rendered
\* text contains the raw exception text str(e).
C3_RawTextAlways ==
    \A p \in DOMAIN log :
        (log[p].ev \in Raises /\ p < Len(log) /\ log[p + 1].ev = "render") =>
            /\ Contains(log[p + 1].data, log[p].data)
            /\ Shows("markdown", log[p].file, log[p + 1].data)

\* C3 (amended): a model-call failure whose exception text does not contain
\* 404 is rendered as "Error processing candidate: " followed by str(e); one
\* whose text contains 404, raised while building the model or generating,
\* is rendered as the fixed model-not-found message instead.
C3_RawTextUnless404 ==
    \A p \in DOMAIN log :
        /\ (log[p].ev \in Raises /\ ~Contains(log[p].data, S404)) =>
              /\ p < Len(log)
              /\ log[p + 1].ev = "render"
              /\ log[p + 1].data = <<ErrPrefix>> \o log[p].data
              /\ Contains(log[p + 1].data, log[p].data)
              /\ Shows("markdown", log[p].file, log[p + 1].data)
        /\ (log[p].ev \in {"raise_model", "raise_generate"} /\ Contains(log[p].data, S404)) =>
              /\ p < Len(log)
              /\ log[p + 1].ev = "render"
              /\ log[p + 1].data = <<ModelErrorHead, ModelName, ModelErrorTail>>
              /\ Shows("markdown", log[p].file, log[p + 1].data)

C3_Witness ==
    \E p \in DOMAIN log :
        /\ log[p].ev = "raise_generate"
        /\ log[p].data = <<"4", "0">>
        /\ Shows("markdown", log[p].file, <<ErrPrefix, "4", "0">>)

\* ---- C4 ---------------------------------------------------------------------------------
\* C4: a file whose extraction raised or produced no text shows the read
\* error in its panel, has no analysis rendered and causes no model request.
C4_ReadErrorShown ==
    \A f \in 1..N :
        ExtractFailed(f) =>
            /\ Shows("error", f, ReadErrorText)
            /\ \A p \in DOMAIN display :
                  display[p].file = f => display[p].kind \in {"expander", "error"}
            /\ Count("request", f) = 0
            /\ Count("render", f) = 0
            /\ ~CallFailed(f)

\* the extraction of the first file raised and the loop has moved past it
C4_Witness ==
    \E p \in DOMAIN log :
        /\ log[p].ev = "extract" /\ log[p].exc /\ log[p].file = 1
        /\ Count("sleep", 1) = 1
        /\ Shows("error", 1, ReadErrorText)

\* ---- C5 ---------------------------------------------------------------------------------
\* C5: the batch is processed strictly in upload order, one file at a time:
\* when the extraction of file j begins, every earlier file has been
\* extracted, its request (if any) answered and its result rendered; never
\* are two model requests outstanding.
C5_Sequential ==
    /\ outstanding <= 1
    /\ \A p, q \in DOMAIN log :
          (p < q /\ log[q].file # 0) => log[p].file <= log[q].file
    /\ \A q \in DOMAIN log :
          log[q].ev = "extract" =>
              \A f \in 1..(log[q].file - 1) :
                  LET before(ev) == Cardinality({p \in 1..(q - 1) :
                                        log[p].ev = ev /\ log[p].file = f})
                  IN  /\ before("extract") = 1
                      /\ before("request") = before("response") + before("raise_generate")
                      /\ \/ before("render") = 1
                         \/ ExtractFailed(f) /\ Shows("error", f, ReadErrorText)

C5_Witness ==
    /\ Count("extract", 2) = 1
    /\ Count("request", 1) = 1
    /\ Count("response", 1) = 1
    /\ pc = "generate"
    /\ outstanding = 1


\* ---- C6 ---------------------------------------------------------------------------------
\* the loop body of file f has run to its end
IterationOver(f) == Count("progress", f) = 1

\* C6 (as stated): every file whose extraction yields non-empty text causes
\* exactly one model request, and no file a second one.
C6_ExactlyOneRequest ==
    \A f \in 1..N :
        /\ Count("request", f) <= 1
        /\ (ExtractOk(f) /\ IterationOver(f)) => Count("request", f) = 1

\* C6 (amended): no file ever causes a second model request, whether the
\* first succeeded or failed; a file whose extraction fails causes none; a
\* file whose extraction yields non-empty text causes exactly one unless
\* configuring the client or building the model raises, and then none.
C6_AtMostOneRequest ==
    \A f \in 1..N :
        /\ Count("request", f) <= 1
        /\ Count("response", f) + Count("raise_generate", f) <= Count("request", f)
        /\ ExtractFailed(f) => Count("request", f) = 0
        /\ (Count("raise_configure", f) + Count("raise_model", f) > 0) =>
              Count("request", f) = 0
        /\ (ExtractOk(f) /\ (IterationOver(f) \/ (pc = "generate" /\ i = f))
              /\ Count("raise_configure", f) + Count("raise_model", f) = 0) =>
              Count("request", f) = 1

\* a request failed, was not repeated, and the next file got its own request
C6_Witness ==
    /\ Count("request", 1) = 1
    /\ Count("raise_generate", 1) = 1
    /\ Count("request", 2) = 1
    /\ pc = "done"

\* ---- C7 ---------------------------------------------------------------------------------
\* C7: a fixed delay separates the requests: between any two model requests
\* of a run there is a sleep, every sleep lasts the same 4 seconds, and each
\* file is followed by exactly one sleep whether it succeeded, failed
\* extraction or failed the model call.
C7_FixedDelay ==
    /\ \A p, q \in DOMAIN log :
          (p < q /\ log[p].ev = "request" /\ log[q].ev = "request") =>
              \E r \in (p + 1)..(q - 1) : log[r].ev = "sleep"
    /\ \A p \in DOMAIN log : log[p].ev = "sleep" => log[p].secs = SleepSeconds
    /\ \A f \in 1..N : Count("sleep", f) <= 1
    /\ (RunStarted /\ Terminated) =>
          \A f \in 1..N :
              (ExtractFailed(f) \/ CallFailed(f) \/ Count("response", f) = 1) =>
                  Count("sleep", f) = 1

\* ---- C8 ---------------------------------------------------------------------------------
\* C8: after the analysis is triggered again, the page shows only what the
\* new run drew: every element belongs to the current run, and the panels
\* are panels of the files of the current run, at most one per file.
C8_SessionReset ==
    /\ \A p \in DOMAIN display : display[p].run = run
    /\ \A p \in DOMAIN display :
          display[p].kind = "expander" =>
              /\ clicked = "screen"
              /\ display[p].file \in 1..N
              /\ display[p].text = uploaded_files[display[p].file]
    /\ Panels(display) <= N
    /\ \A f \in 1..N : Count("extract", f) =
          Cardinality({p \in DOMAIN display :
                          display[p].kind = "expander" /\ display[p].file = f})

\* a second run, with fewer files, after a first run that left two panels
C8_Witness ==
    /\ run = 2
    /\ clicked = "screen"
    /\ prev_panels = 2
    /\ N = 1
    /\ pc = "done"
    /\ Panels(display) = 1

\* ---- C9 ---------------------------------------------------------------------------------
\* C9 (as stated): whatever text the model returns, the match score of the
\* rendered result lies within 0..10.
C9_ScoreInRange ==
    \A p \in DOMAIN log :
        (log[p].ev = "response" /\ p < Len(log)) =>
            /\ log[p + 1].ev = "render"
            /\ InRange(log[p + 1].data)
            /\ Shows("markdown", log[p].file, log[p + 1].data)

\* C9 (amended): the rendered result is the text the model returned,
\* unchanged; its match score lies within 0..10 exactly when the score in
\* the model's answer does.
C9_ScoreAsReturned ==
    \A p \in DOMAIN log :
        log[p].ev = "response" =>
            /\ p < Len(log)
            /\ log[p + 1].ev = "render"
            /\ log[p + 1].data = log[p].data
            /\ Shows("markdown", log[p].file, log[p].data)
            /\ InRange(log[p + 1].data) <=> InRange(log[p].data)

C9_Witness ==
    \E p \in DOMAIN log :
        /\ log[p].ev = "response"
        /\ log[p].data = <<"Summary", ScoreHdr, "7", "/10">>
        /\ Shows("markdown", log[p].file, log[p].data)
        /\ InRange(log[p].data)

\* ---- C10 --------------------------------------------------------------------------------
\* C10: a run that passed validation with n files stops after exactly n loop
\* iterations: one panel per file in upload order, progress i/n after the
\* i-th file (1 only after the last), and the completion message exactly
\* once, after all n files, even when every candidate failed.
C10_Terminates ==
    RunStarted =>
        /\ progress_bar.shown
        /\ progress_bar.den = N
        /\ progress_bar.num = Cardinality({p \in DOMAIN log : log[p].ev = "progress"})
        /\ \A f \in 1..N : Count("progress", f) <= 1
        /\ (progress_bar.num = progress_bar.den) => Count("progress", N) = 1
        /\ Count("complete", 0) <= 1
        /\ (Count("complete", 0) = 1) => \A f \in 1..N : Count("sleep", f) = 1
        /\ \A p, q \in DOMAIN display :
              (p < q /\ display[p].kind = "expander" /\ display[q].kind = "expander") =>
                  display[p].file < display[q].file
        /\ Terminated =>
              /\ \A f \in 1..N : Count("extract", f) = 1 /\ Count("sleep", f) = 1
              /\ Panels(display) = N
              /\ progress_bar.num = N
              /\ Count("complete", 0) = 1
              /\ Shows("success", 0, CompleteText)

====
